---- MODULE Spec2Model ----
(***************************************************************************)
(* AccountForm (src/BankAccount/src/component/AccountForm.tsx): the zod    *)
(* schema of the account-opening form, the react-hook-form submit handler  *)
(* bound to it through zodResolver, and the component's isSubmitted flag.  *)
(*                                                                         *)
(* Strings are sequences of one-character strings, so that length checks   *)
(* and regular expressions are computed on the characters.  Money is kept  *)
(* in hundredths (100.00 is 10000).                                        *)
(***************************************************************************)
EXTENDS Integers, Sequences, FiniteSets, TLC

VARIABLES
    values,        \* the value of every registered input in the DOM
    errors,        \* formState.errors: field name -> message
    isSubmitting,  \* formState.isSubmitting
    formSubmitted, \* react-hook-form's own formState.isSubmitted
    isSubmitted,   \* useState(false) of the component
    pending,       \* handleSubmit invocations that are awaiting
    logged,        \* what onSubmit handed to console.log
    now,           \* the local calendar date new Date() returns
    tz,            \* the browser's offset from UTC, in minutes
    engine         \* what Date.parse does with a non-ISO string

vars == <<values, errors, isSubmitting, formSubmitted, isSubmitted,
          pending, logged, now, tz, engine>>

----------------------------------------------------------------------------
(* Characters and numbers *)

Digits == <<"0", "1", "2", "3", "4", "5", "6", "7", "8", "9">>

DigitSet == {Digits[i] : i \in 1..10}

DigitValue == [c \in DigitSet |-> (CHOOSE i \in 1..10 : Digits[i] = c) - 1]

IsDigit(c) == c \in DigitSet

DigitVal(c) == DigitValue[c]

IsLetter(c) ==
    c \in {"a", "b", "c", "d", "e", "f", "g", "h", "i", "j", "k", "l", "m",
           "n", "o", "p", "q", "r", "s", "t", "u", "v", "w", "x", "y", "z"}

AllDigits(s) == \A i \in 1..Len(s) : IsDigit(s[i])

RECURSIVE NumVal(_)
NumVal(s) ==
    IF s = <<>> THEN 0
    ELSE 10 * NumVal(SubSeq(s, 1, Len(s) - 1)) + DigitVal(s[Len(s)])

Pad2(n) == <<Digits[((n \div 10) % 10) + 1], Digits[(n % 10) + 1]>>

Pad4(n) == Pad2(n \div 100) \o Pad2(n % 100)

\* The value a date input holds for a chosen day: "YYYY-MM-DD".
DateStr(y, m, d) == Pad4(y) \o <<"-">> \o Pad2(m) \o <<"-">> \o Pad2(d)

----------------------------------------------------------------------------
(* register("initialDeposit", { valueAsNumber: true }) *)

NaN == [nan |-> TRUE, cents |-> 0]

Num(c) == [nan |-> FALSE, cents |-> c]

IndexOf(s, c) ==
    IF \E i \in 1..Len(s) : s[i] = c
    THEN CHOOSE i \in 1..Len(s) : s[i] = c /\ \A j \in 1..(i - 1) : s[j] # c
    ELSE 0

\* +value of a decimal literal, in hundredths.
ToNumber(s) ==
    LET dot  == IndexOf(s, ".")
        int  == IF dot = 0 THEN s ELSE SubSeq(s, 1, dot - 1)
        frac == IF dot = 0 THEN <<>> ELSE SubSeq(s, dot + 1, Len(s))
    IN  IF /\ AllDigits(int) /\ AllDigits(frac)
           /\ Len(int) + Len(frac) > 0
           /\ Len(frac) <= 2
        THEN Num(100 * NumVal(int)
                 + (IF Len(frac) = 1 THEN 10 * NumVal(frac) ELSE NumVal(frac)))
        ELSE NaN

valueAsNumber(s) == IF s = <<>> THEN NaN ELSE ToNumber(s)

\* The values react-hook-form hands to the resolver: every input as it is
\* in the DOM, initialDeposit as a number.
FormValues(v) == [v EXCEPT !.initialDeposit = valueAsNumber(v.initialDeposit)]

----------------------------------------------------------------------------
(* The numbers of the schema *)

MinNameLen == 3

PhoneLen == 10

MinAge == 18

MinDeposit == 100

ZipLen == 5

----------------------------------------------------------------------------
(* new Date(string) and getFullYear(), as the refinement of dob uses them *)

IsLeap(y) == (y % 4 = 0 /\ y % 100 # 0) \/ y % 400 = 0

DaysInMonth(y, m) ==
    IF m = 2 THEN (IF IsLeap(y) THEN 29 ELSE 28)
    ELSE IF m \in {4, 6, 9, 11} THEN 30 ELSE 31

\* /\d{4}-\d{2}-\d{2}/ matching the ten characters that start at i.
DatePatternAt(s, i) ==
    /\ i >= 1
    /\ i + 9 <= Len(s)
    /\ \A k \in {0, 1, 2, 3, 5, 6, 8, 9} : IsDigit(s[i + k])
    /\ s[i + 4] = "-"
    /\ s[i + 7] = "-"

InvalidDate == [ok |-> FALSE, utc |-> FALSE, y |-> 0, m |-> 0, d |-> 0, min |-> 0]

\* The calendar fields written at i, a day past the month's end carried into
\* the next month (a day is at most 31, so the carry never leaves the year).
FieldsAt(s, i, utc, min) ==
    LET y == NumVal(SubSeq(s, i, i + 3))
        m == NumVal(SubSeq(s, i + 5, i + 6))
        d == NumVal(SubSeq(s, i + 8, i + 9))
    IN  IF d > DaysInMonth(y, m)
        THEN [ok |-> TRUE, utc |-> utc, y |-> y, m |-> m + 1,
              d |-> d - DaysInMonth(y, m), min |-> min]
        ELSE [ok |-> TRUE, utc |-> utc, y |-> y, m |-> m, d |-> d, min |-> min]

InRange(s, i) ==
    /\ NumVal(SubSeq(s, i + 5, i + 6)) \in 1..12
    /\ NumVal(SubSeq(s, i + 8, i + 9)) \in 1..31

RealDay(s, i) ==
    /\ InRange(s, i)
    /\ NumVal(SubSeq(s, i + 8, i + 9))
         <= DaysInMonth(NumVal(SubSeq(s, i, i + 3)), NumVal(SubSeq(s, i + 5, i + 6)))

\* The date-time form YYYY-MM-DDTHH:mmZ of the ECMAScript date string format.
IsIsoDateTime(s) ==
    /\ Len(s) = 17
    /\ DatePatternAt(s, 1)
    /\ s[11] = "T" /\ s[14] = ":" /\ s[17] = "Z"
    /\ \A k \in {12, 13, 15, 16} : IsDigit(s[k])
    /\ NumVal(SubSeq(s, 12, 13)) \in 0..23
    /\ NumVal(SubSeq(s, 15, 16)) \in 0..59

FirstPattern(s) ==
    IF \E i \in 1..Len(s) : DatePatternAt(s, i)
    THEN CHOOSE i \in 1..Len(s) :
            DatePatternAt(s, i) /\ \A j \in 1..(i - 1) : ~DatePatternAt(s, j)
    ELSE 0

\* new Date(s).  A date-only ISO string is UTC midnight of that day.  An
\* illegal month or day number gives an invalid date; a day past the end of
\* its month, and every string outside the ISO format, is left to the engine:
\* eng = "strict" rejects it, eng = "lenient" reads the date it finds in it.
DateParse(s, eng) ==
    IF Len(s) = 10 /\ DatePatternAt(s, 1) THEN
        IF ~InRange(s, 1) THEN InvalidDate
        ELSE IF RealDay(s, 1) \/ eng = "lenient" THEN FieldsAt(s, 1, TRUE, 0)
        ELSE InvalidDate
    ELSE IF IsIsoDateTime(s) THEN
        IF ~InRange(s, 1) THEN InvalidDate
        ELSE IF RealDay(s, 1) \/ eng = "lenient"
        THEN FieldsAt(s, 1, TRUE,
                      60 * NumVal(SubSeq(s, 12, 13)) + NumVal(SubSeq(s, 15, 16)))
        ELSE InvalidDate
    ELSE IF eng = "lenient" /\ FirstPattern(s) > 0 /\ InRange(s, FirstPattern(s))
    THEN FieldsAt(s, FirstPattern(s), FALSE, 0)
    ELSE InvalidDate

\* getFullYear(): the year of the local day, off minutes away from UTC.
getFullYear(t, off) ==
    IF ~t.utc THEN t.y
    ELSE IF t.min + off < 0 THEN (IF t.m = 1 /\ t.d = 1 THEN t.y - 1 ELSE t.y)
    ELSE IF t.min + off >= 1440 THEN (IF t.m = 12 /\ t.d = 31 THEN t.y + 1 ELSE t.y)
    ELSE t.y

----------------------------------------------------------------------------
(* The schema: each field's checks, in the order the chain declares them.   *)
(* A zod string runs every check of its chain and reports every failure.    *)

Issue(failed, message) == IF failed THEN <<message>> ELSE <<>>

fullname(v) ==
    Issue(Len(v) < 1, "Full name is required")
    \o Issue(Len(v) < MinNameLen, "Full name must be at least 3 characters long")

IsLocalChar(c) == IsLetter(c) \/ IsDigit(c) \/ c \in {"_", "'", "+", "-", "."}

LastIndexOf(s, c) ==
    IF \E i \in 1..Len(s) : s[i] = c
    THEN CHOOSE i \in 1..Len(s) : s[i] = c /\ \A j \in (i + 1)..Len(s) : s[j] # c
    ELSE 0

\* zod's e-mail pattern:
\* ^(?!\.)(?!.*\.\.)([A-Z0-9_'+\-\.]*)[A-Z0-9_+-]@([A-Z0-9][A-Z0-9\-]*\.)+[A-Z]{2,}$
IsEmail(s) ==
    LET at    == IndexOf(s, "@")
        host  == SubSeq(s, at + 1, Len(s))
        dot   == LastIndexOf(host, ".")
    IN  /\ at > 1
        /\ s[1] # "."
        /\ \A i \in 1..(Len(s) - 1) : ~(s[i] = "." /\ s[i + 1] = ".")
        /\ \A i \in 1..(at - 1) : IsLocalChar(s[i])
        /\ s[at - 1] \notin {".", "'"}
        /\ \A i \in 1..Len(host) :
              IsLetter(host[i]) \/ IsDigit(host[i]) \/ host[i] \in {"-", "."}
        /\ dot > 1
        /\ Len(host) - dot >= 2
        /\ \A i \in (dot + 1)..Len(host) : IsLetter(host[i])
        /\ host[1] \notin {"-", "."}
        /\ \A i \in 1..(dot - 1) : host[i] = "." => host[i + 1] # "-"

email(v) ==
    Issue(Len(v) < 1, "Email is required")
    \o Issue(~IsEmail(v), "Invalid email address")

phone(v) ==
    Issue(Len(v) < 1, "Phone number is required")
    \o Issue(~(Len(v) >= 1 /\ AllDigits(v)), "Phone number must be digits only")
    \o Issue(Len(v) # PhoneLen, "Phone number must be exactly 10 digits")

\* regex(/\d{4}-\d{2}-\d{2}/): the pattern carries no ^ and no $.
dobFormat(v) == \E i \in 1..Len(v) : DatePatternAt(v, i)

\* The refinement: currentYear - birthYear >= 18, false when birthYear is NaN.
dobRefine(v, today, off, eng) ==
    LET birth == DateParse(v, eng)
    IN  birth.ok /\ today.y - getFullYear(birth, off) >= MinAge

\* The refinement runs on the string whether or not the regex matched.
dob(v, today, off, eng) ==
    Issue(~dobFormat(v), "Invalid date format (YYYY-MM-DD)")
    \o Issue(~dobRefine(v, today, off, eng), "You must be at least 18 years old")

accountType(v) ==
    Issue(v \notin {"savings", "current"}, "Account type is required")

\* z.number() rejects NaN before min(100) is looked at.
initialDeposit(n) ==
    IF n.nan THEN <<"Expected number, received nan">>
    ELSE Issue(n.cents < 100 * MinDeposit, "Minimum deposit is $100")

currency(v) ==
    Issue(v \notin {"USD", "EUR", "LKR"}, "Select a valid currency")

streetaddress(v) == Issue(Len(v) < 1, "Street address is required")

city(v) == Issue(Len(v) < 1, "City is required")

zipcode_AnyLength(v) ==
    Issue(Len(v) < 1, "Zip code is required")
    \o Issue(~(Len(v) >= 1 /\ AllDigits(v)), "Zip code must be digits only")

zipcode(v) ==
    Issue(Len(v) < 1, "Zip code is required")
    \o Issue(~(Len(v) >= 1 /\ AllDigits(v)), "Zip code must be digits only")
    \o Issue(Len(v) # ZipLen, "Zip code must be exactly 5 digits")

terms(v) == Issue(v # TRUE, "You must accept the terms and conditions")

\* The keys of z.object({...}), in declaration order.
Shape == <<"fullname", "email", "phone", "dob", "accountType", "initialDeposit",
           "currency", "streetaddress", "city", "zipcode", "terms">>

Fields == {Shape[i] : i \in 1..Len(Shape)}

FieldIssues(f, data, today, off, eng) ==
    CASE f = "fullname"       -> fullname(data.fullname)
      [] f = "email"          -> email(data.email)
      [] f = "phone"          -> phone(data.phone)
      [] f = "dob"            -> dob(data.dob, today, off, eng)
      [] f = "accountType"    -> accountType(data.accountType)
      [] f = "initialDeposit" -> initialDeposit(data.initialDeposit)
      [] f = "currency"       -> currency(data.currency)
      [] f = "streetaddress"  -> streetaddress(data.streetaddress)
      [] f = "city"           -> city(data.city)
      [] f = "zipcode"        -> zipcode(data.zipcode)
      [] f = "terms"          -> terms(data.terms)

Tagged(f, messages) == [i \in 1..Len(messages) |-> [path |-> f, message |-> messages[i]]]

\* schema.parseAsync(data): the object parses every key and gathers the
\* issues of all of them.
RECURSIVE schemaFrom(_, _, _, _, _)
schemaFrom(k, data, today, off, eng) ==
    IF k > Len(Shape) THEN <<>>
    ELSE Tagged(Shape[k], FieldIssues(Shape[k], data, today, off, eng))
         \o schemaFrom(k + 1, data, today, off, eng)

schema(data, today, off, eng) == schemaFrom(1, data, today, off, eng)

schemaOutput_Stripped(data) ==
    [fullname |-> data.fullname, email |-> data.email, phone |-> data.phone,
     dob |-> data.dob, accountType |-> data.accountType,
     initialDeposit |-> data.initialDeposit, currency |-> data.currency,
     streetaddress |-> data.streetaddress, city |-> data.city,
     zipcode |-> data.zipcode]

\* The parsed output: the keys of the shape, each with the value parsed.
schemaOutput(data) ==
    [fullname |-> data.fullname, email |-> data.email, phone |-> data.phone,
     dob |-> data.dob, accountType |-> data.accountType,
     initialDeposit |-> data.initialDeposit, currency |-> data.currency,
     streetaddress |-> data.streetaddress, city |-> data.city,
     zipcode |-> data.zipcode, terms |-> data.terms]

NoErrors == [f \in {} |-> ""]

RECURSIVE parseErrorSchema_LastWins(_, _)
parseErrorSchema_LastWins(issues, acc) ==
    IF issues = <<>> THEN acc
    ELSE LET e == Head(issues)
         IN  parseErrorSchema_LastWins(
                 Tail(issues),
                 [f \in (DOMAIN acc) \cup {e.path} |->
                     IF f = e.path THEN e.message ELSE acc[f]])

\* zodResolver's parseErrorSchema: an issue is kept when its path has no
\* entry yet.
RECURSIVE parseErrorSchema(_, _)
parseErrorSchema(issues, acc) ==
    IF issues = <<>> THEN acc
    ELSE LET e == Head(issues)
         IN  parseErrorSchema(
                 Tail(issues),
                 IF e.path \in DOMAIN acc THEN acc
                 ELSE [f \in (DOMAIN acc) \cup {e.path} |->
                          IF f = e.path THEN e.message ELSE acc[f]])

zodResolver(data, today, off, eng) ==
    LET issues == schema(data, today, off, eng)
    IN  IF issues = <<>>
        THEN [ok |-> TRUE, data |-> schemaOutput(data), errors |-> NoErrors]
        ELSE [ok |-> FALSE, data |-> schemaOutput(data),
              errors |-> parseErrorSchema(issues, NoErrors)]

----------------------------------------------------------------------------
(* What the inputs can hold *)

\* The year the sample dates are laid around.
BaseYear == 2024

\* How many fields of a filled-in form differ from Filled in the inputs the
\* schema is checked on.
MaxVaried == 2

Empty == <<>>

\* The inputs as the DOM holds them at mount.
Blank ==
    [fullname |-> Empty, email |-> Empty, phone |-> Empty, dob |-> Empty,
     accountType |-> "", initialDeposit |-> Empty, currency |-> "",
     streetaddress |-> Empty, city |-> Empty, zipcode |-> Empty, terms |-> FALSE]

\* A form filled in with a value that every check accepts.
Filled ==
    [fullname |-> <<"j", "a", "n", "e">>,
     email |-> <<"a", "@", "b", ".", "c", "o">>,
     phone |-> <<"1", "2", "3", "4", "5", "6", "7", "8", "9", "0">>,
     dob |-> DateStr(BaseYear - 34, 6, 15),
     accountType |-> "savings",
     initialDeposit |-> <<"5", "0", "0">>,
     currency |-> "USD",
     streetaddress |-> <<"1", " ", "m", "a", "i", "n">>,
     city |-> <<"g", "a", "l", "l", "e">>,
     zipcode |-> <<"1", "2", "3", "4", "5">>,
     terms |-> TRUE]

\* The days a date input is set to: around the 18th birthday, the first and
\* the last day of a year.
Birthdays ==
    {DateStr(BaseYear - 18, 1, 1), DateStr(BaseYear - 18, 12, 31),
     DateStr(BaseYear - 17, 1, 1), DateStr(BaseYear - 17, 6, 15)}

\* Strings a text box can hold where a date is asked for.
OddDates ==
    {DateStr(BaseYear - 34, 13, 45),
     DateStr(BaseYear - 34, 2, 31),
     DateStr(BaseYear - 34, 6, 15) \o <<"T", "1", "2", ":", "0", "0", "Z">>,
     DateStr(BaseYear - 10, 6, 15) \o <<"T", "1", "2", ":", "0", "0", "Z">>,
     <<"x">> \o DateStr(BaseYear - 34, 6, 15),
     Pad4(BaseYear - 34) \o <<"/", "0", "6", "/", "1", "5">>}

\* The values Edit types into a field of the mounted form.
Choices(f) ==
    CASE f = "fullname"       -> {Empty, Filled.fullname}
      [] f = "email"          -> {Empty, Filled.email}
      [] f = "phone"          -> {Empty, Filled.phone}
      [] f = "dob"            -> {Empty, Filled.dob, DateStr(BaseYear - 17, 1, 1)}
      [] f = "accountType"    -> {"", "savings"}
      [] f = "initialDeposit" -> {Empty, Filled.initialDeposit}
      [] f = "currency"       -> {"", "USD"}
      [] f = "streetaddress"  -> {Empty, Filled.streetaddress}
      [] f = "city"           -> {Empty, Filled.city}
      [] f = "zipcode"        -> {Empty, Filled.zipcode}
      [] f = "terms"          -> {FALSE, TRUE}

\* The values the schema is checked on, field by field.
Samples(f) ==
    CASE f = "fullname"       -> {Empty, <<"a", "b">>, <<"a", "b", "c">>, Filled.fullname}
      [] f = "email"          -> {Empty, <<"a", "b">>, <<"a", "@", "b">>,
                                  <<"a", ".", "@", "b", ".", "c", "o">>, Filled.email}
      [] f = "phone"          -> {Empty, <<"1", "2", "a">>,
                                  <<"1", "2", "3", "4", "5", "6", "7", "8", "9">>,
                                  <<"1", "2", "3", "4", "5", "6", "7", "8", "9", "0", "1">>,
                                  <<"1", "2", "3", "4", "5", "a", "b", "c", "d", "e">>,
                                  Filled.phone}
      [] f = "dob"            -> {Empty, Filled.dob} \cup Birthdays \cup OddDates
      [] f = "accountType"    -> {"", "savings", "current"}
      [] f = "initialDeposit" -> {Empty, <<"9", "9">>, <<"9", "9", ".", "9", "9">>,
                                  <<"1", "0", "0">>, Filled.initialDeposit}
      [] f = "currency"       -> {"", "USD", "EUR", "LKR"}
      [] f = "streetaddress"  -> {Empty, Filled.streetaddress}
      [] f = "city"           -> {Empty, Filled.city}
      [] f = "zipcode"        -> {Empty, <<"1", "2", "3", "4">>, <<"1", "2", "a", "4", "5">>,
                                  <<"1", "a">>, <<"1", "2", "3", "4", "5", "6">>,
                                  Filled.zipcode}
      [] f = "terms"          -> {FALSE, TRUE}

RECURSIVE VaryFrom(_, _)
VaryFrom(base, S) ==
    IF S = {} THEN {base}
    ELSE LET f == CHOOSE g \in S : TRUE
         IN  UNION {VaryFrom([base EXCEPT ![f] = x], S \ {f}) : x \in Samples(f)}

\* The filled-in forms in which at most MaxVaried fields hold another sample.
Inputs ==
    UNION {VaryFrom(Filled, S) : S \in {T \in SUBSET Fields : Cardinality(T) = MaxVaried}}

\* The days the clock shows.
Nows ==
    {[y |-> BaseYear, m |-> 1, d |-> 1], [y |-> BaseYear + 1, m |-> 6, d |-> 15]}

\* Offsets from UTC, in minutes: New York in winter, Colombo.
Zones == {-300, 330}

Engines == {"strict", "lenient"}

----------------------------------------------------------------------------
(* The component *)

FormMounted_Always == TRUE

\* Line 68: the success view replaces the form once isSubmitted is set.
FormMounted == ~isSubmitted

ButtonDisabled_Never == FALSE

\* Line 312: disabled={isSubmitting}.  A disabled submit button is the form's
\* default button, so neither a click nor Enter in a field submits.
ButtonDisabled == isSubmitting

onSubmit_LogOnly(data) ==
    /\ logged' = Append(logged, data)
    /\ isSubmitted' = isSubmitted

\* onSubmit(data): console.log(data); setIsSubmitted(true).
onSubmit(data) ==
    /\ logged' = Append(logged, data)
    /\ isSubmitted' = TRUE

Remove(q, i) == SubSeq(q, 1, i - 1) \o SubSeq(q, i + 1, Len(q))

Revalidated_Stale(errs, f, fresh) == errs

\* The entry of f in errs set to what the fresh result says of f.
Revalidated(errs, f, fresh) ==
    [g \in ((DOMAIN errs) \ {f}) \cup ({f} \cap DOMAIN fresh) |->
        IF g = f THEN fresh[g] ELSE errs[g]]

\* A change event of field f.  Before the first submit nothing is validated
\* (mode onSubmit); after it the changed field is validated again
\* (reValidateMode onChange).  A change event is a task of its own: it never
\* runs between the continuations of a handleSubmit.
Edit(f, v) ==
    /\ FormMounted
    /\ pending = <<>>
    /\ v # values[f]
    /\ values' = [values EXCEPT ![f] = v]
    /\ errors' = IF formSubmitted
                 THEN Revalidated(errors, f,
                          zodResolver(FormValues(values'), now, tz, engine).errors)
                 ELSE errors
    /\ UNCHANGED <<isSubmitting, formSubmitted, isSubmitted, pending, logged,
                   now, tz, engine>>

\* The submit event: handleSubmit(onSubmit) up to its first await.  The
\* resolver is called with the values of this moment.
SubmitTrigger ==
    /\ FormMounted
    /\ ~ButtonDisabled
    /\ isSubmitting' = TRUE
    /\ pending' = Append(pending,
                         [pc |-> "resolver",
                          result |-> zodResolver(FormValues(values), now, tz, engine)])
    /\ UNCHANGED <<values, errors, formSubmitted, isSubmitted, logged, now, tz, engine>>

\* handleSubmit after await _executeSchema(), the result valid: the errors
\* are cleared and onValid is called and awaited.
ResolverValid(i) ==
    /\ i \in 1..Len(pending)
    /\ pending[i].pc = "resolver"
    /\ pending[i].result.ok
    /\ errors' = NoErrors
    /\ onSubmit(pending[i].result.data)
    /\ pending' = [pending EXCEPT ![i].pc = "onValid"]
    /\ UNCHANGED <<values, isSubmitting, formSubmitted, now, tz, engine>>

ResolverInvalid_Reset(i) ==
    /\ i \in 1..Len(pending)
    /\ pending[i].pc = "resolver"
    /\ ~pending[i].result.ok
    /\ errors' = pending[i].result.errors
    /\ isSubmitting' = FALSE
    /\ formSubmitted' = TRUE
    /\ pending' = Remove(pending, i)
    /\ values' = Blank
    /\ UNCHANGED <<isSubmitted, logged, now, tz, engine>>

\* handleSubmit after await _executeSchema(), the result invalid: no
\* onInvalid was given, so the handler runs to its end.
ResolverInvalid(i) ==
    /\ i \in 1..Len(pending)
    /\ pending[i].pc = "resolver"
    /\ ~pending[i].result.ok
    /\ errors' = pending[i].result.errors
    /\ isSubmitting' = FALSE
    /\ formSubmitted' = TRUE
    /\ pending' = Remove(pending, i)
    /\ UNCHANGED <<values, isSubmitted, logged, now, tz, engine>>

SubmitFinish_StillSubmitting(i) ==
    /\ i \in 1..Len(pending)
    /\ pending[i].pc = "onValid"
    /\ formSubmitted' = TRUE
    /\ pending' = Remove(pending, i)
    /\ UNCHANGED <<values, errors, isSubmitting, isSubmitted, logged, now, tz, engine>>

\* handleSubmit after await onValid(...): the closing state update.
SubmitFinish(i) ==
    /\ i \in 1..Len(pending)
    /\ pending[i].pc = "onValid"
    /\ isSubmitting' = FALSE
    /\ formSubmitted' = TRUE
    /\ pending' = Remove(pending, i)
    /\ UNCHANGED <<values, errors, isSubmitted, logged, now, tz, engine>>

Mounted(v) ==
    /\ values = v
    /\ errors = NoErrors
    /\ isSubmitting = FALSE
    /\ formSubmitted = FALSE
    /\ isSubmitted = FALSE
    /\ pending = <<>>
    /\ logged = <<>>
    /\ now \in Nows
    /\ tz \in Zones
    /\ engine \in Engines

\* The component at mount.  Every value a date input holds is an ISO date,
\* which all engines parse alike, so the form is followed under one of them.
Init == Mounted(Blank) /\ engine = "strict"

Handlers ==
    \/ SubmitTrigger
    \/ \E i \in 1..Len(pending) : ResolverValid(i)
    \/ \E i \in 1..Len(pending) : ResolverInvalid(i)
    \/ \E i \in 1..Len(pending) : SubmitFinish(i)

Next ==
    \/ \E f \in Fields : \E v \in Choices(f) : Edit(f, v)
    \/ Handlers

Spec == Init /\ [][Next]_vars

\* The schema on sampled inputs: a form filled in and not yet submitted, then
\* submitted.
InitSchema == \E v \in Inputs : Mounted(v)

NextSchema == Handlers

SpecSchema == InitSchema /\ [][NextSchema]_vars

----------------------------------------------------------------------------
(* The controller's states, as the render reads the two flags *)

Phase ==
    IF isSubmitted THEN "Submitted"
    ELSE IF isSubmitting THEN "Submitting"
    ELSE "Editing"

\* The schema finds nothing wrong with the inputs as they stand.
Passes == schema(FormValues(values), now, tz, engine) = <<>>

\* The step in which the handleSubmit that is awaiting the resolver goes on.
AttemptResolves ==
    /\ pending # <<>>
    /\ Head(pending).pc = "resolver"
    /\ pending' # pending

----------------------------------------------------------------------------
(* C1: the success view is shown only when the inputs of the last submit    *)
(* attempt passed the schema (no edit follows that attempt, so they are the *)
(* inputs the form still holds), and an attempt whose inputs pass the       *)
(* schema sets isSubmitted when its validation returns.                     *)
C1_SubmittedIffValid ==
    /\ [](isSubmitted => (Passes /\ logged = <<FormValues(values)>>))
    /\ [][(AttemptResolves /\ Passes) => isSubmitted']_vars

C1_Witness == isSubmitted /\ Passes /\ ~isSubmitting

(* C2: Submitted is terminal.  Once isSubmitted is set it stays set, no     *)
(* input changes any more and no further handleSubmit starts.               *)
C2_SubmittedTerminal ==
    [][(Phase = "Submitted") =>
          /\ Phase' = "Submitted"
          /\ values' = values
          /\ Len(pending') <= Len(pending)
          /\ (isSubmitting' => isSubmitting)]_vars

C2_Witness == Phase = "Submitted" /\ pending = <<>> /\ formSubmitted

TermsOff == [Filled EXCEPT !.terms = FALSE]

(* C3: a submit attempt that fails validation ends in Editing with the      *)
(* schema's errors attached, leaves every input as it was, leaves           *)
(* isSubmitted false and hands nothing to onSubmit; a form that is valid    *)
(* but for the unticked terms box gets an error on terms alone.             *)
C3_FailedAttempt ==
    [][(AttemptResolves /\ ~Passes) =>
          /\ Phase' = "Editing"
          /\ errors' = zodResolver(FormValues(values), now, tz, engine).errors
          /\ errors' # NoErrors
          /\ values' = values
          /\ isSubmitted' = FALSE
          /\ logged' = logged
          /\ (values = TermsOff => DOMAIN errors' = {"terms"})]_vars

C3_Witness ==
    /\ values = TermsOff
    /\ formSubmitted
    /\ Phase = "Editing"
    /\ DOMAIN errors = {"terms"}
    /\ logged = <<>>

(* C4: while isSubmitting is set no second handleSubmit starts: at most one *)
(* is ever awaiting, onSubmit is called at most once, and no step taken     *)
(* while isSubmitting adds an attempt.                                      *)
C4_NoSecondSubmit ==
    /\ [](Len(pending) <= 1 /\ Len(logged) <= 1)
    /\ [][isSubmitting => Len(pending') <= Len(pending)]_vars

C4_Witness == isSubmitting /\ Len(pending) = 1 /\ Head(pending).pc = "resolver"

----------------------------------------------------------------------------
(* The field-rule table of the specification, read off the raw inputs *)

WholeShape(s) == Len(s) = 10 /\ DatePatternAt(s, 1)

WrittenYear(s) == NumVal(SubSeq(s, 1, 4))

TableRule(f, v, today) ==
    CASE f = "fullname"       -> Len(v.fullname) >= 1 /\ Len(v.fullname) >= 3
      [] f = "email"          -> Len(v.email) >= 1 /\ IsEmail(v.email)
      [] f = "phone"          -> Len(v.phone) = 10 /\ AllDigits(v.phone)
      [] f = "dob"            -> /\ WholeShape(v.dob)
                                 /\ today.y - WrittenYear(v.dob) >= 18
      [] f = "accountType"    -> v.accountType \in {"savings", "current"}
      [] f = "initialDeposit" -> /\ ~valueAsNumber(v.initialDeposit).nan
                                 /\ valueAsNumber(v.initialDeposit).cents >= 10000
      [] f = "currency"       -> v.currency \in {"USD", "EUR", "LKR"}
      [] f = "streetaddress"  -> Len(v.streetaddress) >= 1
      [] f = "city"           -> Len(v.city) >= 1
      [] f = "zipcode"        -> Len(v.zipcode) = 5 /\ AllDigits(v.zipcode)
      [] f = "terms"          -> v.terms = TRUE

\* The month and day written in a date of the whole shape exist.
RealDate(s) == WholeShape(s) /\ RealDay(s, 1)

\* The validated output is the coerced input, key by key.
OutputIsInput ==
    /\ Len(logged) = 1
    /\ DOMAIN logged[1] = Fields
    /\ \A f \in Fields : logged[1][f] = FormValues(values)[f]

(* C5, as claimed: when every field satisfies its rule of the table, the    *)
(* attempt succeeds and the validated output equals the coerced input.      *)
C5_Original ==
    (formSubmitted /\ \A f \in Fields : TableRule(f, values, now))
        => (isSubmitted /\ errors = NoErrors /\ OutputIsInput)

(* C5, amended: the same for inputs whose dateOfBirth, besides having the   *)
(* shape and the year the table asks for, names a day that exists.          *)
C5_ValidInputAccepted ==
    (/\ formSubmitted
     /\ \A f \in Fields : TableRule(f, values, now)
     /\ RealDate(values.dob))
        => (isSubmitted /\ errors = NoErrors /\ OutputIsInput)

C5_Witness ==
    /\ formSubmitted
    /\ \A f \in Fields : TableRule(f, values, now)
    /\ RealDate(values.dob)
    /\ values.initialDeposit = <<"1", "0", "0">>
    /\ logged # <<>>
    /\ logged[1].initialDeposit = Num(10000)

\* A field meets its rule; a dateOfBirth must also name a day that exists.
MeetsRule(f, v, today) ==
    TableRule(f, v, today) /\ (f = "dob" => RealDate(v.dob))

(* C6: after validation the fields that carry an error are exactly the      *)
(* fields that fail their rule: every failing field has an entry and no     *)
(* valid field has one.  (A dateOfBirth of the right shape and year whose   *)
(* day does not exist is held to neither.)                                  *)
C6_ErrorsAreFailingFields ==
    formSubmitted =>
        \A f \in Fields :
            /\ ~TableRule(f, values, now) => f \in DOMAIN errors
            /\ MeetsRule(f, values, now) => f \notin DOMAIN errors

(* C7: a field's message is that of the first failing check of its chain:   *)
(* "required" for an empty fullname, email, phone or zipcode; "digits only" *)
(* for a phone or zipcode with a non-digit, whatever its length; "exactly N *)
(* digits" only for an all-digit value of another length.                   *)
C7_FirstFailingRule ==
    formSubmitted =>
        /\ \A f \in DOMAIN errors :
              errors[f] = Head(FieldIssues(f, FormValues(values), now, tz, engine))
        /\ values.fullname = Empty => errors.fullname = "Full name is required"
        /\ values.email = Empty => errors.email = "Email is required"
        /\ values.phone = Empty => errors.phone = "Phone number is required"
        /\ values.zipcode = Empty => errors.zipcode = "Zip code is required"
        /\ (values.phone # Empty /\ ~AllDigits(values.phone))
              => errors.phone = "Phone number must be digits only"
        /\ (values.zipcode # Empty /\ ~AllDigits(values.zipcode))
              => errors.zipcode = "Zip code must be digits only"
        /\ ("phone" \in DOMAIN errors
                /\ errors.phone = "Phone number must be exactly 10 digits")
              => (values.phone # Empty /\ AllDigits(values.phone)
                    /\ Len(values.phone) # 10)
        /\ ("zipcode" \in DOMAIN errors
                /\ errors.zipcode = "Zip code must be exactly 5 digits")
              => (values.zipcode # Empty /\ AllDigits(values.zipcode)
                    /\ Len(values.zipcode) # 5)

C7_Witness ==
    /\ formSubmitted
    /\ values.phone = <<"1", "2", "a">>
    /\ values.zipcode = Empty
    /\ errors.phone = "Phone number must be digits only"
    /\ errors.zipcode = "Zip code is required"

\* Full years from the day y-m-d to today.
AgeOn(y, m, d, today) ==
    today.y - y - (IF today.m < m \/ (today.m = m /\ today.d < d) THEN 1 ELSE 0)

\* The age today of someone born on the day written in s.
AgeWritten(s, today) ==
    LET i == FirstPattern(s)
    IN  AgeOn(NumVal(SubSeq(s, i, i + 3)), NumVal(SubSeq(s, i + 5, i + 6)),
              NumVal(SubSeq(s, i + 8, i + 9)), today)

(* C8: whoever is accepted is at least 18 full years old on the current     *)
(* date.                                                                    *)
C8_AcceptedIsAdult ==
    isSubmitted => (dobFormat(values.dob) /\ AgeWritten(values.dob, now) >= 18)

(* C9: for a well-formed dateOfBirth the age rule passes exactly when the   *)
(* current year minus the year of birth is at least 18.                     *)
C9_YearSubtraction ==
    (formSubmitted /\ RealDate(values.dob))
        => (("dob" \notin DOMAIN errors) <=> (now.y - WrittenYear(values.dob) >= 18))

(* C10: a dateOfBirth is accepted only if the whole value has the shape     *)
(* YYYY-MM-DD; a value of another shape reports the format error, and the   *)
(* age error is reported only for values of that shape.                     *)
C10_WholeShapeOnly ==
    /\ isSubmitted => WholeShape(values.dob)
    /\ (formSubmitted /\ ~WholeShape(values.dob))
          => ("dob" \in DOMAIN errors
                /\ errors.dob = "Invalid date format (YYYY-MM-DD)")
    /\ (formSubmitted /\ "dob" \in DOMAIN errors
            /\ errors.dob = "You must be at least 18 years old")
          => WholeShape(values.dob)

(* C11: initialDeposit is accepted exactly when it is a number of at least  *)
(* 100, and every rejected deposit, an unset one included, carries the      *)
(* minimum-deposit message on the initialDeposit field.                     *)
C11_DepositRule ==
    formSubmitted =>
        /\ ("initialDeposit" \notin DOMAIN errors)
              <=> (/\ ~valueAsNumber(values.initialDeposit).nan
                   /\ valueAsNumber(values.initialDeposit).cents >= 10000)
        /\ "initialDeposit" \in DOMAIN errors
              => errors.initialDeposit = "Minimum deposit is $100"

(* C12: phone is accepted exactly when it is 10 characters, all of them     *)
(* digits, and zipcode exactly when it is 5 characters, all of them digits; *)
(* a zipcode of 4 digits carries the "exactly 5 digits" message.            *)
C12_PhoneAndZip ==
    formSubmitted =>
        /\ ("phone" \notin DOMAIN errors)
              <=> (Len(values.phone) = 10 /\ AllDigits(values.phone))
        /\ ("zipcode" \notin DOMAIN errors)
              <=> (Len(values.zipcode) = 5 /\ AllDigits(values.zipcode))
        /\ values.zipcode = <<"1", "2", "3", "4">>
              => errors.zipcode = "Zip code must be exactly 5 digits"

C12_Witness ==
    /\ formSubmitted
    /\ values.phone = <<"1", "2", "3", "4", "5", "a", "b", "c", "d", "e">>
    /\ values.zipcode = <<"1", "2", "3", "4">>
    /\ DOMAIN errors = {"phone", "zipcode"}
    /\ errors.zipcode = "Zip code must be exactly 5 digits"

\* No handleSubmit is awaiting and the form is still shown.
Idle == pending = <<>> /\ ~isSubmitted

(* C13: once an attempt has been made, the errors shown are those of        *)
(* validating the inputs as they stand now, whatever was submitted and      *)
(* edited before: no earlier error stays on a field that is valid now, and  *)
(* inputs that are valid now are accepted after earlier failures.           *)
C13_FreshEachAttempt ==
    /\ []((formSubmitted /\ Idle)
            => errors = zodResolver(FormValues(values), now, tz, engine).errors)
    /\ [][(AttemptResolves /\ formSubmitted /\ Passes)
            => (isSubmitted' /\ errors' = NoErrors)]_vars

\* Accepted by an attempt that is still awaiting onSubmit, after an earlier
\* attempt had run to its end (and failed: the form was still shown).
C13_Witness ==
    /\ formSubmitted
    /\ isSubmitted
    /\ pending # <<>>
    /\ Head(pending).pc = "onValid"
    /\ errors = NoErrors

(* C14, as claimed: isSubmitting and isSubmitted are never both true.       *)
C14_Original == ~(isSubmitting /\ isSubmitted)

(* C14, amended: the two flags are both true only while a successful        *)
(* handleSubmit has called onSubmit and not yet made its closing update;    *)
(* when no handleSubmit is awaiting, isSubmitting is false.                 *)
C14_BothOnlyWhileFinishing ==
    /\ (isSubmitting /\ isSubmitted)
          => (Len(pending) = 1 /\ Head(pending).pc = "onValid")
    /\ pending = <<>> => ~isSubmitting

C14_Witness ==
    /\ isSubmitting
    /\ isSubmitted
    /\ Phase = "Submitted"
    /\ logged # <<>>

====
